---- MODULE Spec2Model ----
(***************************************************************************)
(* Model of the tic-tac-toe robot arm (src/TTTRobot.py): the game rule     *)
(* engine (check_win, check_draw, get_robot_move), the piece inventory,    *)
(* the motion sequencer and the run_game session loop; and of the cube     *)
(* pick-up of the sorting arm (src/sorting.py) with its movement threads.  *)
(***************************************************************************)
EXTENDS Integers, Sequences, FiniteSets, TLC

VARIABLES
    pc,               \* position of the control thread
    board,            \* global board (TTTRobot.py:25)
    board_in,         \* the board as it was when the operation under study was called
    side_in,          \* the `player` argument of the last check_win call
    win_ret,          \* return value of the last check_win call
    move_ret,         \* return value of the last get_robot_move call
    blue_blocks_used, \* TTTRobot.py:78
    red_blocks_used,  \* TTTRobot.py:79
    prev_board,       \* run_game's snapshot of the board (line 558)
    polls,            \* iterations of wait_for_player_move's loop so far
    player_move,      \* run_game's player_move
    block_num,        \* pick_block's block_num in the current robot turn
    servo,            \* kit.servo[n].angle, the last angle commanded per joint
    cmds,             \* joint commands issued since the current turn began
    result,           \* how the session ended ("none" while it runs)
    misreads,         \* perception reads so far that were not faithful
    last_read,        \* outcome of the last analyze_board_state call
    alloc_log,        \* <<is_robot_block, returned slot>> of the allocation calls so far
    call_in,          \* arguments of the motion call under study
    moving,           \* sorting.py: the joint movements in flight
    OPENAI_API_KEY,   \* the module global read by the vision call (line 28)
    environ_key,      \* os.environ["OPENAI_API_KEY"]
    camera,           \* the module global `camera` (lines 33-43)
    camera_closes,    \* calls of camera.close() so far
    teardown,         \* outcome of the move_to_home() of main's finally block
    turns,            \* iterations of run_game's loop begun in this session
    commits,          \* robot marks written to the board in this session
    detections        \* player moves detected by the waits of this session

rules_vars == <<board_in, side_in, win_ret, move_ret>>
inventory_vars == <<blue_blocks_used, red_blocks_used>>
motion_vars == <<servo, cmds>>
game_vars == <<prev_board, polls, player_move, block_num, result, misreads>>

probe_vars == <<alloc_log, call_in, moving>>
main_vars == <<OPENAI_API_KEY, environ_key, camera, camera_closes, teardown>>
count_vars == <<turns, commits, detections>>

vars == <<pc, board, rules_vars, inventory_vars, motion_vars, game_vars,
          last_read, probe_vars, main_vars, count_vars>>

-----------------------------------------------------------------------------
(* Data                                                                    *)

Idx == 0..2
Cell == {0, 1, 2}          \* 0 = empty, 1 = player (blue), 2 = robot (red)
Pos == Idx \X Idx
None == <<>>               \* Python's None as a returned move

MkBoard(rows) == [r \in Idx |-> [c \in Idx |-> rows[r + 1][c + 1]]]
AllBoards == [Idx -> [Idx -> Cell]]
ZeroBoard == [r \in Idx |-> [c \in Idx |-> 0]]
EmptyCells(b) == {p \in Pos : b[p[1]][p[2]] = 0}

-----------------------------------------------------------------------------
(* Game rule engine                                                        *)

\* check_win with the anti-diagonal read from the wrong corner.
check_win_BadDiagonal(b, player) ==
    \/ \E row \in Idx : \A col \in Idx : b[row][col] = player
    \/ \E col \in Idx : \A row \in Idx : b[row][col] = player
    \/ (b[0][0] = player /\ b[1][1] = player /\ b[2][2] = player)
    \/ (b[0][2] = player /\ b[1][1] = player /\ b[2][2] = player)

check_win(b, player) ==
    \/ \E row \in Idx : \A col \in Idx : b[row][col] = player
    \/ \E col \in Idx : \A row \in Idx : b[row][col] = player
    \/ (b[0][0] = player /\ b[1][1] = player /\ b[2][2] = player)
    \/ (b[0][2] = player /\ b[1][1] = player /\ b[2][0] = player)

\* check_draw that does not look at the last row.
check_draw_SkipsLastRow(b) == ~(\E r \in 0..1, c \in Idx : b[r][c] = 0)

check_draw(b) == ~(\E r \in Idx, c \in Idx : b[r][c] = 0)

\* TrialAt without the reset on the path that returns the winning cell.
TrialAt_NoResetOnHit(b, row, col, mark) ==
    LET placed == [b EXCEPT ![row][col] = mark]
        won    == check_win(placed, mark)
    IN  [board |-> IF won THEN placed ELSE [placed EXCEPT ![row][col] = 0],
         found |-> won]

\* One trial placement of get_robot_move (lines 403-408 / 413-418): the cell
\* is written, check_win is asked, and the cell is reset on both paths.
TrialAt(b, row, col, mark) ==
    LET placed == [b EXCEPT ![row][col] = mark]
        won    == check_win(placed, mark)
    IN  [board |-> [placed EXCEPT ![row][col] = 0], found |-> won]

\* ScanTrial walking the cells column by column instead of row by row.
RECURSIVE ScanTrial_ColumnMajor(_, _, _)
ScanTrial_ColumnMajor(b, mark, k) ==
    IF k > 8 THEN [board |-> b, move |-> None]
    ELSE LET row == k % 3
             col == k \div 3
         IN  IF b[row][col] = 0
             THEN LET t == TrialAt(b, row, col, mark)
                  IN  IF t.found
                      THEN [board |-> t.board, move |-> <<row, col>>]
                      ELSE ScanTrial_ColumnMajor(t.board, mark, k + 1)
             ELSE ScanTrial_ColumnMajor(b, mark, k + 1)

\* The double loop `for row in range(3): for col in range(3)` from cell k on,
\* threading the (mutated and restored) board through the scan.
RECURSIVE ScanTrial(_, _, _)
ScanTrial(b, mark, k) ==
    IF k > 8 THEN [board |-> b, move |-> None]
    ELSE LET row == k \div 3
             col == k % 3
         IN  IF b[row][col] = 0
             THEN LET t == TrialAt(b, row, col, mark)
                  IN  IF t.found
                      THEN [board |-> t.board, move |-> <<row, col>>]
                      ELSE ScanTrial(t.board, mark, k + 1)
             ELSE ScanTrial(b, mark, k + 1)

corners == <<<<0, 0>>, <<0, 2>>, <<2, 0>>, <<2, 2>>>>
edges == <<<<0, 1>>, <<1, 0>>, <<1, 2>>, <<2, 1>>>>

\* random.shuffle(list): every ordering of the list is a possible outcome.
Shuffles(list) ==
    {[i \in 1..Len(list) |-> list[p[i]]] : p \in Permutations(1..Len(list))}

\* `for row, col in order: if board[row, col] == 0: return row, col`
RECURSIVE FirstEmptyIn(_, _, _)
FirstEmptyIn(b, order, i) ==
    IF i > Len(order) THEN None
    ELSE IF b[order[i][1]][order[i][2]] = 0 THEN order[i]
    ELSE FirstEmptyIn(b, order, i + 1)

\* The centre taken without looking at it.
CenterFree_Unchecked(b) == TRUE

\* `if board[1, 1] == 0` (line 421).
CenterFree(b) == b[1][1] = 0

\* get_robot_move with the blocking scan run before the winning scan.
get_robot_move_BlockFirst(b) ==
    LET p == ScanTrial(b, 1, 0)
    IN  IF p.move # None THEN {p}
        ELSE LET w == ScanTrial(p.board, 2, 0)
             IN  IF w.move # None THEN {w}
                 ELSE IF CenterFree(w.board)
                 THEN {[board |-> w.board, move |-> <<1, 1>>]}
                 ELSE {[board |-> w.board,
                        move  |-> LET cm == FirstEmptyIn(w.board, co, 1)
                                  IN  IF cm # None THEN cm
                                      ELSE FirstEmptyIn(w.board, eo, 1)]
                        : co \in Shuffles(corners), eo \in Shuffles(edges)}

\* get_robot_move without its immediate-win tier.
get_robot_move_NoWinTier(b) ==
    LET p == ScanTrial(b, 1, 0)
    IN  IF p.move # None THEN {p}
        ELSE IF CenterFree(p.board)
        THEN {[board |-> p.board, move |-> <<1, 1>>]}
        ELSE {[board |-> p.board,
               move  |-> LET cm == FirstEmptyIn(p.board, co, 1)
                         IN  IF cm # None THEN cm
                             ELSE FirstEmptyIn(p.board, eo, 1)]
               : co \in Shuffles(corners), eo \in Shuffles(edges)}

\* get_robot_move on board b: the set of possible (board-after, returned move)
\* pairs, one per outcome of the two shuffles.
get_robot_move(b) ==
    LET w == ScanTrial(b, 2, 0)
    IN  IF w.move # None THEN {w}
        ELSE LET p == ScanTrial(w.board, 1, 0)
             IN  IF p.move # None THEN {p}
                 ELSE IF CenterFree(p.board)
                 THEN {[board |-> p.board, move |-> <<1, 1>>]}
                 ELSE {[board |-> p.board,
                        move  |-> LET cm == FirstEmptyIn(p.board, co, 1)
                                  IN  IF cm # None THEN cm
                                      ELSE FirstEmptyIn(p.board, eo, 1)]
                        : co \in Shuffles(corners), eo \in Shuffles(edges)}

-----------------------------------------------------------------------------
(* Piece inventory                                                         *)

NumBlocks == 5
Slots == 1..NumBlocks
AllUnused == [i \in Slots |-> FALSE]

\* An allocation that hands the slot before the returned one back.
RECURSIVE NextAvailableFrom_ReleasesPrevious(_, _)
NextAvailableFrom_ReleasesPrevious(blocks_used, i) ==
    IF i > NumBlocks THEN [used |-> blocks_used, ret |-> 0]
    ELSE IF ~blocks_used[i]
         THEN [used |-> [n \in Slots |-> IF n = i THEN TRUE
                                         ELSE IF n = i - 1 THEN FALSE
                                         ELSE blocks_used[n]],
               ret |-> i]
         ELSE NextAvailableFrom_ReleasesPrevious(blocks_used, i + 1)

\* The scan of get_next_available_block from slot i on: the first unused slot
\* is marked used and returned (1-based); 0 stands for None.
RECURSIVE NextAvailableFrom(_, _)
NextAvailableFrom(blocks_used, i) ==
    IF i > NumBlocks THEN [used |-> blocks_used, ret |-> 0]
    ELSE IF ~blocks_used[i]
         THEN [used |-> [blocks_used EXCEPT ![i] = TRUE], ret |-> i]
         ELSE NextAvailableFrom(blocks_used, i + 1)

\* get_next_available_block that returns the slot without marking it used.
get_next_available_block_NoMark(blocks_used) ==
    [used |-> blocks_used, ret |-> NextAvailableFrom(blocks_used, 1).ret]

get_next_available_block(blocks_used) == NextAvailableFrom(blocks_used, 1)

\* reset_game that restores the red slots only.
reset_game_KeepsBlue ==
    [board |-> ZeroBoard, blue |-> blue_blocks_used, red |-> AllUnused]

\* reset_game (lines 450-455): the globals after the call.
reset_game ==
    [board |-> ZeroBoard, blue |-> AllUnused, red |-> AllUnused]

-----------------------------------------------------------------------------
(* Motion sequencer                                                        *)

SERVO_BASE == 0
SERVO_SHOULDER == 1
SERVO_ELBOW == 2
SERVO_WRIST_PITCH == 3
SERVO_WRIST_ROLL == 4
SERVO_CLAW == 5
Joints == 0..5

Unknown == -1              \* no angle has been commanded yet
Steps == 10                \* move_servo_smoothly's default `steps`

Pose(b, s, e, wp, wr) ==
    [base |-> b, shoulder |-> s, elbow |-> e, wrist_pitch |-> wp, wrist_roll |-> wr]

board_positions ==
    [p \in Pos |->
        CASE p = <<0, 0>> -> Pose(30, 90, 45, 0, 90)
          [] p = <<0, 1>> -> Pose(30, 100, 45, 0, 90)
          [] p = <<0, 2>> -> Pose(30, 110, 45, 0, 90)
          [] p = <<1, 0>> -> Pose(60, 90, 45, 0, 90)
          [] p = <<1, 1>> -> Pose(60, 100, 45, 0, 90)
          [] p = <<1, 2>> -> Pose(60, 110, 45, 0, 90)
          [] p = <<2, 0>> -> Pose(90, 90, 45, 0, 90)
          [] p = <<2, 1>> -> Pose(90, 100, 45, 0, 90)
          [] p = <<2, 2>> -> Pose(90, 110, 45, 0, 90)]

blue_storage ==
    [n \in Slots |->
        CASE n = 1 -> Pose(150, 80, 45, 0, 90)
          [] n = 2 -> Pose(150, 90, 45, 0, 90)
          [] n = 3 -> Pose(150, 100, 45, 0, 90)
          [] n = 4 -> Pose(150, 110, 45, 0, 90)
          [] n = 5 -> Pose(150, 120, 45, 0, 90)]

red_storage ==
    [n \in Slots |->
        CASE n = 1 -> Pose(180, 80, 45, 0, 90)
          [] n = 2 -> Pose(180, 90, 45, 0, 90)
          [] n = 3 -> Pose(180, 100, 45, 0, 90)
          [] n = 4 -> Pose(180, 110, 45, 0, 90)
          [] n = 5 -> Pose(180, 120, 45, 0, 90)]

home_position == Pose(120, 45, 90, 0, 90)

\* The arm as the sequencer sees it: the joints' last commanded angles and
\* the commands issued so far. Angles are in tenths of a degree, so that
\* step_size = (target - current) / steps is exact for whole-degree angles.
Arm(sv, cs) == [servo |-> sv, cmds |-> cs]
Deg(d) == 10 * d

\* kit.servo[servo_num].angle = angle
SetAngle(arm, servo_num, angle) ==
    Arm([arm.servo EXCEPT ![servo_num] = angle],
        Append(arm.cmds, <<servo_num, angle>>))

\* move_servo_smoothly with current_angle=None: the joint is stepped from its
\* current angle (the target itself when none is known) to
\* current + step_size * steps; the last of the `steps` commands is recorded.
move_servo_smoothly(arm, servo_num, target_angle) ==
    LET current_angle == IF arm.servo[servo_num] = Unknown
                         THEN target_angle
                         ELSE arm.servo[servo_num]
        step_size == (target_angle - current_angle) \div Steps
    IN  SetAngle(arm, servo_num, current_angle + step_size * Steps)

\* move_arm_to_position(position) with smooth=True.
move_arm_to_position(arm, position) ==
    LET a1 == move_servo_smoothly(arm, SERVO_BASE, Deg(position.base))
        a2 == move_servo_smoothly(a1, SERVO_SHOULDER, Deg(position.shoulder))
        a3 == move_servo_smoothly(a2, SERVO_ELBOW, Deg(position.elbow))
        a4 == move_servo_smoothly(a3, SERVO_WRIST_PITCH, Deg(position.wrist_pitch))
    IN  move_servo_smoothly(a4, SERVO_WRIST_ROLL, Deg(position.wrist_roll))

open_claw(arm) == move_servo_smoothly(arm, SERVO_CLAW, Deg(0))
close_claw(arm) == move_servo_smoothly(arm, SERVO_CLAW, Deg(90))

\* A pick that closes the gripper before the wrist is lowered.
PickMotion_ClosesBeforeLowering(arm, is_robot_block, n) ==
    LET a1 == move_arm_to_position(arm,
                  IF is_robot_block THEN red_storage[n] ELSE blue_storage[n])
        a2 == open_claw(a1)
        current_wrist == a2.servo[SERVO_WRIST_PITCH]
        a3 == close_claw(a2)
        a4 == move_servo_smoothly(a3, SERVO_WRIST_PITCH, current_wrist + Deg(30))
    IN  move_servo_smoothly(a4, SERVO_WRIST_PITCH, current_wrist)

\* The motion of pick_block once a block number is known (lines 155-179).
PickMotion(arm, is_robot_block, n) ==
    LET a1 == move_arm_to_position(arm,
                  IF is_robot_block THEN red_storage[n] ELSE blue_storage[n])
        a2 == open_claw(a1)
        current_wrist == a2.servo[SERVO_WRIST_PITCH]
        a3 == move_servo_smoothly(a2, SERVO_WRIST_PITCH, current_wrist + Deg(30))
        a4 == close_claw(a3)
    IN  move_servo_smoothly(a4, SERVO_WRIST_PITCH, current_wrist)

\* pick_block that drives to the last storage pose before it finds out that
\* no block is left.
pick_block_MovesBeforeCheck(arm, blue_used, red_used, is_robot_block) ==
    LET got == get_next_available_block(IF is_robot_block THEN red_used ELSE blue_used)
    IN  [blue  |-> IF is_robot_block THEN blue_used ELSE got.used,
         red   |-> IF is_robot_block THEN got.used ELSE red_used,
         arm   |-> IF got.ret = 0
                   THEN move_arm_to_position(arm, red_storage[NumBlocks])
                   ELSE PickMotion(arm, is_robot_block, got.ret),
         block |-> got.ret,
         ok    |-> got.ret # 0]

\* pick_block: the inventory after the call, the arm after the call, the
\* block number taken (0 for none) and the returned flag.
pick_block(arm, blue_used, red_used, is_robot_block) ==
    LET got == get_next_available_block(IF is_robot_block THEN red_used ELSE blue_used)
    IN  [blue  |-> IF is_robot_block THEN blue_used ELSE got.used,
         red   |-> IF is_robot_block THEN got.used ELSE red_used,
         arm   |-> IF got.ret = 0 THEN arm ELSE PickMotion(arm, is_robot_block, got.ret),
         block |-> got.ret,
         ok    |-> got.ret # 0]

\* A place that opens the gripper at the cell's pose before the wrist is
\* lowered.
place_block_OpensBeforeLowering(arm, row, col) ==
    LET a1 == move_arm_to_position(arm, board_positions[<<row, col>>])
        current_wrist == a1.servo[SERVO_WRIST_PITCH]
        a2 == open_claw(a1)
        a3 == move_servo_smoothly(a2, SERVO_WRIST_PITCH, current_wrist + Deg(30))
    IN  move_servo_smoothly(a3, SERVO_WRIST_PITCH, current_wrist)

\* place_block(row, col) (lines 181-199).
place_block(arm, row, col) ==
    LET a1 == move_arm_to_position(arm, board_positions[<<row, col>>])
        current_wrist == a1.servo[SERVO_WRIST_PITCH]
        a2 == move_servo_smoothly(a1, SERVO_WRIST_PITCH, current_wrist + Deg(30))
        a3 == open_claw(a2)
    IN  move_servo_smoothly(a3, SERVO_WRIST_PITCH, current_wrist)

move_to_home(arm) == move_arm_to_position(arm, home_position)

-----------------------------------------------------------------------------
(* Rule engine called on an arbitrary board                                *)

InitRules ==
    /\ pc = "rules_ready"
    /\ board \in AllBoards
    /\ board_in = board
    /\ side_in = 0
    /\ win_ret = FALSE
    /\ move_ret = None
    /\ blue_blocks_used = AllUnused
    /\ red_blocks_used = AllUnused
    /\ prev_board = ZeroBoard
    /\ polls = 0
    /\ player_move = None
    /\ block_num = 0
    /\ servo = [n \in Joints |-> Unknown]
    /\ cmds = <<>>
    /\ result = "none"
    /\ misreads = 0
    /\ last_read = "none"
    /\ alloc_log = <<>>
    /\ call_in = None
    /\ moving = {}
    /\ OPENAI_API_KEY = "env_key"
    /\ environ_key = "env_key"
    /\ camera = "open"
    /\ camera_closes = 0
    /\ teardown = "none"
    /\ turns = 0
    /\ commits = 0
    /\ detections = 0

CallCheckWin ==
    /\ pc = "rules_ready"
    /\ \E player \in {1, 2} :
          /\ side_in' = player
          /\ win_ret' = check_win(board, player)
    /\ pc' = "win_checked"
    /\ UNCHANGED <<board, board_in, move_ret>>
    /\ UNCHANGED <<inventory_vars, motion_vars, game_vars>>
    /\ UNCHANGED <<last_read, probe_vars,
                   main_vars, count_vars>>

CallGetRobotMove ==
    /\ pc = "rules_ready"
    /\ \E res \in get_robot_move(board) :
          /\ board' = res.board
          /\ move_ret' = res.move
    /\ pc' = "move_returned"
    /\ UNCHANGED <<board_in, side_in, win_ret>>
    /\ UNCHANGED <<inventory_vars, motion_vars, game_vars>>
    /\ UNCHANGED <<last_read, probe_vars,
                   main_vars, count_vars>>

\* check_draw(board) (lines 394-396); the result is kept in win_ret.
CallCheckDraw ==
    /\ pc = "rules_ready"
    /\ side_in' = 0
    /\ win_ret' = check_draw(board)
    /\ pc' = "draw_checked"
    /\ UNCHANGED <<board, board_in, move_ret>>
    /\ UNCHANGED <<inventory_vars, motion_vars, game_vars>>
    /\ UNCHANGED <<last_read, probe_vars, main_vars, count_vars>>

NextRules == CallCheckWin \/ CallGetRobotMove \/ CallCheckDraw

SpecRules == InitRules /\ [][NextRules]_vars

-----------------------------------------------------------------------------
(* Perception                                                              *)

MaxPolls == 2              \* polls of one player-move wait explored
MaxMisreads == 1           \* unfaithful reads explored per session

\* os.getenv("OPENAI_API_KEY") when the variable is not set: `not` of it holds.
NoKey == "no_key"

\* A faithful read of a board on which the player has placed nothing or one
\* block since the program last updated `board`.
FaithfulReads(b) ==
    {b} \cup {[b EXCEPT ![p[1]][p[2]] = 1] : p \in EmptyCells(b)}

\* An unfaithful read: the vision model overlooks the blocks (or they have
\* been taken off the board) and an empty grid is reported.
BlankReads == {ZeroBoard}

\* analyze_board_with_vision_api's possible 3x3 results when `board` is b
\* and n reads of the session were unfaithful already.
DetectedBoards(b, n) ==
    FaithfulReads(b) \cup (IF n < MaxMisreads THEN BlankReads ELSE {})

\* The comparison taking any newly marked cell for the player's move.
RECURSIVE FirstNewPlayerCell_AnyNewMark(_, _, _)
FirstNewPlayerCell_AnyNewMark(prev, cur, k) ==
    IF k > 8 THEN None
    ELSE IF prev[k \div 3][k % 3] = 0 /\ cur[k \div 3][k % 3] # 0
         THEN <<k \div 3, k % 3>>
         ELSE FirstNewPlayerCell_AnyNewMark(prev, cur, k + 1)

\* The first cell, row by row, that is 0 in prev and 1 in cur (lines 344-351).
RECURSIVE FirstNewPlayerCell(_, _, _)
FirstNewPlayerCell(prev, cur, k) ==
    IF k > 8 THEN None
    ELSE IF prev[k \div 3][k % 3] = 0 /\ cur[k \div 3][k % 3] = 1
         THEN <<k \div 3, k % 3>>
         ELSE FirstNewPlayerCell(prev, cur, k + 1)

BoardSum(b) == b[0][0] + b[0][1] + b[0][2] + b[1][0] + b[1][1] + b[1][2]
               + b[2][0] + b[2][1] + b[2][2]

-----------------------------------------------------------------------------
(* The session: main's menu and run_game                                   *)

TheArm == Arm(servo, cmds)

InitGame ==
    /\ pc = "menu"
    /\ board = ZeroBoard
    /\ board_in = ZeroBoard
    /\ side_in = 0
    /\ win_ret = FALSE
    /\ move_ret = None
    /\ blue_blocks_used = AllUnused
    /\ red_blocks_used = AllUnused
    /\ prev_board = ZeroBoard
    /\ polls = 0
    /\ player_move = None
    /\ block_num = 0
    /\ servo = [n \in Joints |-> Unknown]
    /\ cmds = <<>>
    /\ result = "none"
    /\ misreads = 0
    /\ last_read = "none"
    /\ alloc_log = <<>>
    /\ call_in = None
    /\ moving = {}
    /\ OPENAI_API_KEY = "env_key"
    /\ environ_key = "env_key"
    /\ camera = "open"
    /\ camera_closes = 0
    /\ teardown = "none"
    /\ turns = 0
    /\ commits = 0
    /\ detections = 0

\* run_game that starts on the board and the inventories as they were left.
StartGame_NoReset ==
    /\ pc \in {"menu", "run_game"}
    /\ LET arm == move_to_home(Arm(servo, <<>>))
       IN  servo' = arm.servo /\ cmds' = arm.cmds
    /\ result' = "none"
    /\ misreads' = 0
    /\ polls' = 0
    /\ player_move' = None
    /\ block_num' = 0
    /\ prev_board' = ZeroBoard
    /\ pc' = "initial_scan"
    /\ last_read' = "none"
    /\ turns' = 0
    /\ commits' = 0
    /\ detections' = 0
    /\ UNCHANGED <<board, inventory_vars, rules_vars, probe_vars, main_vars>>

\* Menu choice 3: run_game is entered; reset_game() and move_to_home()
\* (lines 535-539).
StartGame ==
    /\ pc \in {"menu", "run_game"}
    /\ board' = ZeroBoard
    /\ blue_blocks_used' = AllUnused
    /\ red_blocks_used' = AllUnused
    /\ LET arm == move_to_home(Arm(servo, <<>>))
       IN  servo' = arm.servo /\ cmds' = arm.cmds
    /\ result' = "none"
    /\ misreads' = 0
    /\ polls' = 0
    /\ player_move' = None
    /\ block_num' = 0
    /\ prev_board' = ZeroBoard
    /\ pc' = "initial_scan"
    /\ UNCHANGED rules_vars
    /\ last_read' = "none"
    /\ alloc_log' = <<>>
    /\ turns' = 0
    /\ commits' = 0
    /\ detections' = 0
    /\ UNCHANGED <<call_in, moving, main_vars>>

\* The initial analyze_board_state() fails: run_game returns False (542-544).
InitialScanFails ==
    /\ pc = "initial_scan"
    /\ result' = "scan_failed"
    /\ pc' = "play_again"
    /\ UNCHANGED <<board, rules_vars, inventory_vars, motion_vars,
                   prev_board, polls, player_move, block_num, misreads>>
    /\ last_read' = "failed"
    /\ UNCHANGED <<probe_vars, main_vars, count_vars>>

\* The initial analyze_board_state() succeeds: the detected grid becomes the
\* board; a non-empty board asks the user (lines 542-549).
InitialScan ==
    /\ pc = "initial_scan"
    /\ OPENAI_API_KEY # NoKey
    /\ \E g \in DetectedBoards(board, misreads) :
          /\ board' = g
          /\ misreads' = IF g \in FaithfulReads(board) THEN misreads ELSE misreads + 1
          /\ pc' = IF BoardSum(g) > 0 THEN "confirm_nonempty" ELSE "loop_top"
    /\ UNCHANGED <<rules_vars, inventory_vars, motion_vars,
                   prev_board, polls, player_move, block_num, result>>
    /\ last_read' = "grid"
    /\ UNCHANGED <<probe_vars, main_vars, count_vars>>

\* "Continue anyway? (y/n)" (lines 550-552).
ConfirmNonEmpty ==
    /\ pc = "confirm_nonempty"
    /\ \E clear \in {"y", "n"} :
          IF clear # "y"
          THEN result' = "declined" /\ pc' = "play_again"
          ELSE result' = result /\ pc' = "loop_top"
    /\ UNCHANGED <<board, rules_vars, inventory_vars, motion_vars,
                   prev_board, polls, player_move, block_num, misreads>>
    /\ UNCHANGED <<last_read, probe_vars,
                   main_vars, count_vars>>

\* Top of `while not game_over`: the snapshot is taken and the wait begins
\* (lines 556-561, 358-359).
LoopTop ==
    /\ pc = "loop_top"
    /\ prev_board' = board
    /\ polls' = 0
    /\ cmds' = <<>>
    /\ player_move' = None
    /\ block_num' = 0
    /\ board_in' = board
    /\ move_ret' = None
    /\ pc' = "waiting"
    /\ UNCHANGED <<board, side_in, win_ret, inventory_vars, servo, result, misreads>>
    /\ turns' = turns + 1
    /\ UNCHANGED <<last_read, probe_vars, main_vars, commits, detections>>

\* A failed read that wipes the board.
PollFails_ClearsBoard ==
    /\ pc = "waiting"
    /\ polls < MaxPolls
    /\ polls' = polls + 1
    /\ board' = ZeroBoard
    /\ UNCHANGED <<pc, rules_vars, inventory_vars, motion_vars,
                   prev_board, player_move, block_num, result, misreads>>
    /\ last_read' = "failed"
    /\ UNCHANGED <<probe_vars, main_vars, count_vars>>

\* One iteration of wait_for_player_move's loop whose analyze_board_state()
\* fails: no move, sleep, poll again (lines 339-341, 364-369).
PollFails ==
    /\ pc = "waiting"
    /\ polls < MaxPolls
    /\ polls' = polls + 1
    /\ UNCHANGED <<pc, board, rules_vars, inventory_vars, motion_vars,
                   prev_board, player_move, block_num, result, misreads>>
    /\ last_read' = "failed"
    /\ UNCHANGED <<probe_vars, main_vars, count_vars>>

\* One iteration whose analyze_board_state() succeeds: the detected grid
\* becomes the board and is compared with the snapshot (lines 325-328,
\* 344-351, 363-369).
Poll ==
    /\ pc = "waiting"
    /\ polls < MaxPolls
    /\ OPENAI_API_KEY # NoKey
    /\ \E g \in DetectedBoards(board, misreads) :
          LET move == FirstNewPlayerCell(prev_board, g, 0)
          IN  /\ board' = g
              /\ misreads' = IF g \in FaithfulReads(board) THEN misreads
                             ELSE misreads + 1
              /\ player_move' = move
              /\ pc' = IF move # None THEN "player_moved" ELSE "waiting"
    /\ polls' = polls + 1
    /\ UNCHANGED <<rules_vars, inventory_vars, motion_vars,
                   prev_board, block_num, result>>
    /\ last_read' = "grid"
    /\ detections' = IF player_move' # None THEN detections + 1 ELSE detections
    /\ UNCHANGED <<probe_vars, main_vars, turns, commits>>

\* A timed-out wait that is not told apart from a detected move.
WaitTimesOut_RobotMovesAnyway ==
    /\ pc = "waiting"
    /\ polls >= 1
    /\ pc' = "player_moved"
    /\ UNCHANGED <<board, rules_vars, inventory_vars, motion_vars,
                   prev_board, polls, player_move, block_num, misreads, result>>
    /\ UNCHANGED <<last_read, probe_vars,
                   main_vars, count_vars>>

\* The loop condition `time.time() - start_time < timeout` fails: the wait
\* returns None and run_game returns False (lines 361, 371-372, 563-565).
\* The first test of the condition passes (no time has gone by); a read has
\* no time limit, so the condition may fail after any later poll.
WaitTimesOut ==
    /\ pc = "waiting"
    /\ polls >= 1
    /\ result' = "timeout"
    /\ pc' = "play_again"
    /\ UNCHANGED <<board, rules_vars, inventory_vars, motion_vars,
                   prev_board, polls, player_move, block_num, misreads>>
    /\ UNCHANGED <<last_read, probe_vars,
                   main_vars, count_vars>>

\* The end check after the player's move without its draw branch.
AfterPlayerMove_NoDrawCheck ==
    /\ pc = "player_moved"
    /\ IF check_win(board, 1)
       THEN result' = "PlayerWin" /\ pc' = "play_again"
       ELSE result' = result /\ pc' = "robot_thinking"
    /\ UNCHANGED <<board, rules_vars, inventory_vars, motion_vars,
                   prev_board, polls, player_move, block_num, misreads>>
    /\ UNCHANGED <<last_read, probe_vars,
                   main_vars, count_vars>>

\* After the player's move: win, draw, or the robot's turn (lines 567-579).
AfterPlayerMove ==
    /\ pc = "player_moved"
    /\ IF check_win(board, 1)
       THEN result' = "PlayerWin" /\ pc' = "play_again"
       ELSE IF check_draw(board)
       THEN result' = "Draw" /\ pc' = "play_again"
       ELSE result' = result /\ pc' = "robot_thinking"
    /\ UNCHANGED <<board, rules_vars, inventory_vars, motion_vars,
                   prev_board, polls, player_move, block_num, misreads>>
    /\ UNCHANGED <<last_read, probe_vars,
                   main_vars, count_vars>>

\* robot_row, robot_col = get_robot_move() (line 582); unpacking None raises.
RobotThinks ==
    /\ pc = "robot_thinking"
    /\ board_in' = board
    /\ \E res \in get_robot_move(board) :
          /\ board' = res.board
          /\ move_ret' = res.move
          /\ pc' = IF res.move = None THEN "crashed" ELSE "robot_moving"
    /\ UNCHANGED <<side_in, win_ret, inventory_vars, motion_vars, game_vars>>
    /\ UNCHANGED <<last_read, probe_vars,
                   main_vars, count_vars>>

\* A robot turn that takes its block from the player's storage.
RobotPicks_TakesPlayerBlock ==
    /\ pc = "robot_moving"
    /\ LET got == pick_block(TheArm, blue_blocks_used, red_blocks_used, FALSE)
       IN  /\ blue_blocks_used' = got.blue
           /\ red_blocks_used' = got.red
           /\ servo' = got.arm.servo
           /\ cmds' = got.arm.cmds
           /\ block_num' = got.block
           /\ IF got.ok
              THEN result' = result /\ pc' = "placing"
              ELSE result' = "out_of_blocks" /\ pc' = "play_again"
    /\ UNCHANGED <<board, rules_vars, prev_board, polls, player_move, misreads>>
    /\ alloc_log' = Append(alloc_log, <<FALSE, block_num'>>)
    /\ UNCHANGED <<last_read, call_in, moving, main_vars, count_vars>>

\* A robot turn that finds no block left without ending the game.
RobotPicks_ContinuesWithoutBlock ==
    /\ pc = "robot_moving"
    /\ LET got == pick_block(TheArm, blue_blocks_used, red_blocks_used, TRUE)
       IN  /\ blue_blocks_used' = got.blue
           /\ red_blocks_used' = got.red
           /\ servo' = got.arm.servo
           /\ cmds' = got.arm.cmds
           /\ block_num' = got.block
           /\ result' = result
           /\ pc' = IF got.ok THEN "placing" ELSE "loop_top"
    /\ UNCHANGED <<board, rules_vars, prev_board, polls, player_move, misreads>>
    /\ alloc_log' = Append(alloc_log, <<TRUE, block_num'>>)
    /\ UNCHANGED <<last_read, call_in, moving, main_vars, count_vars>>

\* pick_block(True) (line 586): with no block left the game is over
\* (lines 601-606), otherwise the block is picked.
RobotPicks ==
    /\ pc = "robot_moving"
    /\ LET got == pick_block(TheArm, blue_blocks_used, red_blocks_used, TRUE)
       IN  /\ blue_blocks_used' = got.blue
           /\ red_blocks_used' = got.red
           /\ servo' = got.arm.servo
           /\ cmds' = got.arm.cmds
           /\ block_num' = got.block
           /\ IF got.ok
              THEN result' = result /\ pc' = "placing"
              ELSE result' = "out_of_blocks" /\ pc' = "play_again"
    /\ UNCHANGED <<board, rules_vars, prev_board, polls, player_move, misreads>>
    /\ alloc_log' = Append(alloc_log, <<TRUE, block_num'>>)
    /\ UNCHANGED <<last_read, call_in, moving, main_vars, count_vars>>

\* The board written as soon as the block is placed, before the arm is home.
RobotPlaces_CommitsEarly ==
    /\ pc = "placing"
    /\ LET arm == place_block(TheArm, move_ret[1], move_ret[2])
       IN  servo' = arm.servo /\ cmds' = arm.cmds
    /\ board' = [board EXCEPT ![move_ret[1]][move_ret[2]] = 2]
    /\ pc' = "homing"
    /\ UNCHANGED <<rules_vars, inventory_vars, game_vars>>
    /\ UNCHANGED <<last_read, probe_vars,
                   main_vars, count_vars>>

\* place_block(robot_row, robot_col) (line 587).
RobotPlaces ==
    /\ pc = "placing"
    /\ LET arm == place_block(TheArm, move_ret[1], move_ret[2])
       IN  servo' = arm.servo /\ cmds' = arm.cmds
    /\ pc' = "homing"
    /\ UNCHANGED <<board, rules_vars, inventory_vars, game_vars>>
    /\ UNCHANGED <<last_read, probe_vars,
                   main_vars, count_vars>>

\* A return home during which the board is read again from the camera.
RobotHomes_RereadsBoard ==
    /\ pc = "homing"
    /\ LET arm == move_to_home(TheArm)
       IN  servo' = arm.servo /\ cmds' = arm.cmds
    /\ \E g \in FaithfulReads(board) : board' = g
    /\ last_read' = "grid"
    /\ pc' = "commit"
    /\ UNCHANGED <<rules_vars, inventory_vars, game_vars>>
    /\ UNCHANGED <<probe_vars, main_vars, count_vars>>

\* move_to_home() (line 588).
RobotHomes ==
    /\ pc = "homing"
    /\ LET arm == move_to_home(TheArm)
       IN  servo' = arm.servo /\ cmds' = arm.cmds
    /\ pc' = "commit"
    /\ UNCHANGED <<board, rules_vars, inventory_vars, game_vars>>
    /\ UNCHANGED <<last_read, probe_vars,
                   main_vars, count_vars>>

\* The end check after the robot's move looking for a line of the player.
RobotCommits_ChecksPlayerLine ==
    /\ pc = "commit"
    /\ LET b == [board EXCEPT ![move_ret[1]][move_ret[2]] = 2]
       IN  /\ board' = b
           /\ IF check_win(b, 1)
              THEN result' = "RobotWin" /\ pc' = "play_again"
              ELSE IF check_draw(b)
              THEN result' = "Draw" /\ pc' = "play_again"
              ELSE result' = result /\ pc' = "loop_top"
    /\ UNCHANGED <<rules_vars, inventory_vars, motion_vars,
                   prev_board, polls, player_move, block_num, misreads>>
    /\ commits' = commits + 1
    /\ UNCHANGED <<last_read, probe_vars, main_vars, turns, detections>>

\* board[robot_row, robot_col] = 2 and the end check (lines 590-600).
RobotCommits ==
    /\ pc = "commit"
    /\ LET b == [board EXCEPT ![move_ret[1]][move_ret[2]] = 2]
       IN  /\ board' = b
           /\ IF check_win(b, 2)
              THEN result' = "RobotWin" /\ pc' = "play_again"
              ELSE IF check_draw(b)
              THEN result' = "Draw" /\ pc' = "play_again"
              ELSE result' = result /\ pc' = "loop_top"
    /\ UNCHANGED <<rules_vars, inventory_vars, motion_vars,
                   prev_board, polls, player_move, block_num, misreads>>
    /\ commits' = commits + 1
    /\ UNCHANGED <<last_read, probe_vars, main_vars, turns, detections>>

\* "Play again? (y/n)": y resets and runs another game, anything else
\* returns to the menu (lines 637-643).
PlayAgain ==
    /\ pc = "play_again"
    /\ \E play_again \in {"y", "n"} :
          IF play_again # "y"
          THEN /\ pc' = "menu"
               /\ UNCHANGED <<board, inventory_vars, alloc_log>>
          ELSE /\ pc' = "run_game"
               /\ board' = ZeroBoard
               /\ blue_blocks_used' = AllUnused
               /\ red_blocks_used' = AllUnused
               /\ alloc_log' = <<>>
    \* run_game's locals are gone once it has returned
    /\ prev_board' = ZeroBoard
    /\ polls' = 0
    /\ cmds' = <<>>
    /\ player_move' = None
    /\ block_num' = 0
    /\ board_in' = ZeroBoard
    /\ move_ret' = None
    /\ misreads' = 0
    /\ UNCHANGED <<side_in, win_ret, servo, result>>
    /\ last_read' = "none"
    /\ turns' = 0
    /\ commits' = 0
    /\ detections' = 0
    /\ UNCHANGED <<call_in, moving, main_vars>>

NextGame ==
    \/ StartGame
    \/ InitialScanFails
    \/ InitialScan
    \/ ConfirmNonEmpty
    \/ LoopTop
    \/ PollFails
    \/ Poll
    \/ WaitTimesOut
    \/ AfterPlayerMove
    \/ RobotThinks
    \/ RobotPicks
    \/ RobotPlaces
    \/ RobotHomes
    \/ RobotCommits
    \/ PlayAgain

SpecGame == InitGame /\ [][NextGame]_vars

\* The rule engine on arbitrary boards together with the session.
InitAll == InitRules \/ InitGame
NextAll == NextRules \/ NextGame
SpecAll == InitAll /\ [][NextAll]_vars

-----------------------------------------------------------------------------
(* Properties of the rule engine                                           *)

\* The eight lines of the grid, as sets of positions.
Lines ==
    {{<<r, c>> : c \in Idx} : r \in Idx} \cup
    {{<<r, c>> : r \in Idx} : c \in Idx} \cup
    {{<<0, 0>>, <<1, 1>>, <<2, 2>>}, {<<0, 2>>, <<1, 1>>, <<2, 0>>}}

UniformLine(b, s) == \E l \in Lines : \A p \in l : b[p[1]][p[2]] = s

HasEmpty(b) == EmptyCells(b) # {}

\* The empty cells whose filling with `mark` completes a line of `mark`.
CompletingCells(b, mark) ==
    {p \in EmptyCells(b) : UniformLine([b EXCEPT ![p[1]][p[2]] = mark], mark)}

RowMajor(p) == 3 * p[1] + p[2]
FirstRowMajor(S) == CHOOSE p \in S : \A q \in S : RowMajor(p) <= RowMajor(q)

CornerSet == {<<0, 0>>, <<0, 2>>, <<2, 0>>, <<2, 2>>}
EdgeSet == {<<0, 1>>, <<1, 0>>, <<1, 2>>, <<2, 1>>}

\* The five-tier priority as a predicate on (input board, returned move).
TierMove(b, m) ==
    IF CompletingCells(b, 2) # {} THEN m = FirstRowMajor(CompletingCells(b, 2))
    ELSE IF CompletingCells(b, 1) # {} THEN m = FirstRowMajor(CompletingCells(b, 1))
    ELSE IF b[1][1] = 0 THEN m = <<1, 1>>
    ELSE IF CornerSet \cap EmptyCells(b) # {} THEN m \in CornerSet \cap EmptyCells(b)
    ELSE m \in EdgeSet \cap EmptyCells(b)

BoardDiagonalOpen == MkBoard(<<<<2, 0, 0>>, <<0, 2, 0>>, <<0, 0, 0>>>>)
BoardRowThreat == MkBoard(<<<<1, 1, 0>>, <<2, 2, 0>>, <<0, 0, 0>>>>)
BoardAntiDiagonal == MkBoard(<<<<0, 1, 2>>, <<1, 2, 0>>, <<2, 0, 1>>>>)

\* C1: on every board with an empty cell, get_robot_move returns the cell the
\* five-tier priority gives (win, block, centre, a free corner, a free edge),
\* a later tier only when no earlier one yields a cell; on
\* [[2,0,0],[0,2,0],[0,0,0]] that is (2,2).
C1_TieredMove ==
    (pc = "move_returned" /\ HasEmpty(board_in)) =>
        /\ TierMove(board_in, move_ret)
        /\ (board_in = BoardDiagonalOpen => move_ret = <<2, 2>>)

\* A board whose centre, win and block tiers are all exhausted, answered
\* from the corner tier.
C1_Witness ==
    /\ pc = "move_returned"
    /\ CompletingCells(board_in, 2) = {}
    /\ CompletingCells(board_in, 1) = {}
    /\ board_in[1][1] # 0
    /\ Cardinality(CornerSet \cap EmptyCells(board_in)) >= 2
    /\ move_ret \in CornerSet

\* C2: check_win(board, side) is true exactly when one of the 3 rows, 3
\* columns or 2 diagonals is uniformly `side`; false on the empty board.
C2_CheckWinIffLine ==
    pc = "win_checked" =>
        /\ win_ret <=> UniformLine(board, side_in)
        /\ (board = ZeroBoard => ~win_ret)

C2_Witness ==
    /\ pc = "win_checked"
    /\ board = BoardAntiDiagonal
    /\ side_in = 2
    /\ win_ret

\* C3 as stated: on [[1,1,0],[2,2,0],[0,0,0]] get_robot_move returns (0,2).
C3_Original ==
    (pc = "move_returned" /\ board_in = BoardRowThreat) => move_ret = <<0, 2>>

\* C3 amended: on [[1,1,0],[2,2,0],[0,0,0]] get_robot_move returns (1,2), the
\* robot's own completion of row 1, which the win tier finds before the block
\* tier is tried.
C3_TakesWinOverBlock ==
    (pc = "move_returned" /\ board_in = BoardRowThreat) => move_ret = <<1, 2>>

C3_Witness ==
    /\ pc = "move_returned"
    /\ board_in = BoardRowThreat
    /\ move_ret = <<1, 2>>

\* C4: get_robot_move leaves the board as it found it, cell for cell, on
\* every return path.
C4_BoardRestored ==
    pc = "move_returned" => board = board_in

\* A return from inside the winning scan, after earlier trial placements.
C4_Witness ==
    /\ pc = "move_returned"
    /\ board_in = BoardDiagonalOpen
    /\ move_ret = <<2, 2>>
    /\ board = board_in

\* C5: a returned coordinate is in range and names a cell that is empty on
\* the input board.
C5_ReturnsEmptyCell ==
    (pc = "move_returned" /\ move_ret # None) =>
        /\ move_ret \in Pos
        /\ board_in[move_ret[1]][move_ret[2]] = 0

\* An edge returned on a board whose centre and corners are all taken.
C5_Witness ==
    /\ pc = "move_returned"
    /\ board_in[1][1] # 0
    /\ CornerSet \cap EmptyCells(board_in) = {}
    /\ move_ret \in EdgeSet
    /\ board_in[move_ret[1]][move_ret[2]] = 0

-----------------------------------------------------------------------------
(* Properties of the session                                               *)

\* C6: get_robot_move returns no move exactly when the board has no empty
\* cell, and run_game never calls it on a full board, so the unpacking of its
\* result at line 582 never meets None.
C6_NoMoveOnlyOnFullBoard ==
    /\ (pc = "move_returned" => (move_ret = None <=> ~HasEmpty(board_in)))
    /\ (pc = "robot_thinking" => HasEmpty(board))
    /\ (pc \in {"robot_moving", "placing", "homing", "commit"} => move_ret \in Pos)
    /\ pc # "crashed"

\* The robot asked for a move in a session with exactly one cell left.
C6_Witness ==
    /\ pc = "robot_moving"
    /\ Cardinality(EmptyCells(board_in)) = 1
    /\ move_ret \in EmptyCells(board_in)

\* C7: a player-move wait in which no read shows a new player block ends, at
\* the timeout, with the session aborted; from the start of the wait to the
\* end of the session no move is chosen, no slot allocated and no joint
\* command issued.
C7_TimeoutAbortsWithoutRobotAction ==
    /\ [](((pc = "waiting") \/ (pc = "play_again" /\ result = "timeout")) =>
            (cmds = <<>> /\ move_ret = None /\ block_num = 0))
    /\ [][pc = "waiting" =>
            /\ UNCHANGED <<inventory_vars, servo, cmds, move_ret, block_num>>
            /\ \/ pc' = "waiting" /\ player_move' = None
               \/ pc' = "player_moved" /\ player_move' # None
               \/ pc' = "play_again" /\ result' = "timeout" /\ player_move' = None]_vars

\* A timeout in a later turn, after the robot has already played once.
C7_Witness ==
    /\ pc = "play_again"
    /\ result = "timeout"
    /\ polls >= 2
    /\ red_blocks_used[1]
    /\ cmds = <<>>

IsResetStep == pc \in {"menu", "run_game", "play_again"}

\* C8 as stated: every cell is 0, 1 or 2, and outside a reset no step changes
\* a marked cell.
C8_Original ==
    /\ [](board \in AllBoards)
    /\ [][~IsResetStep =>
            \A r \in Idx, c \in Idx :
                board[r][c] # 0 => board'[r][c] = board[r][c]]_vars

\* What one robot turn commands, stated from the pose tables: the storage
\* pose, gripper open, wrist down, gripper closed, wrist up; the cell pose,
\* wrist down, gripper open, wrist up; the home pose.
PoseCmds(pose) ==
    <<<<SERVO_BASE, 10 * pose.base>>, <<SERVO_SHOULDER, 10 * pose.shoulder>>,
      <<SERVO_ELBOW, 10 * pose.elbow>>, <<SERVO_WRIST_PITCH, 10 * pose.wrist_pitch>>,
      <<SERVO_WRIST_ROLL, 10 * pose.wrist_roll>>>>
PickCmds(n) ==
    PoseCmds(red_storage[n]) \o
    <<<<SERVO_CLAW, 0>>, <<SERVO_WRIST_PITCH, 300>>,
      <<SERVO_CLAW, 900>>, <<SERVO_WRIST_PITCH, 0>>>>
PlaceCmds(p) ==
    PoseCmds(board_positions[p]) \o
    <<<<SERVO_WRIST_PITCH, 300>>, <<SERVO_CLAW, 0>>, <<SERVO_WRIST_PITCH, 0>>>>
HomeCmds == PoseCmds(home_position)

\* The robot's move of the current turn has been written to the board.
RobotCommitted ==
    /\ move_ret # None
    /\ \/ pc = "loop_top"
       \/ pc = "play_again" /\ result \in {"RobotWin", "Draw"}

\* C9: in a robot turn with a slot available the arm picks from the allocated
\* slot's pose, places at the chosen cell's pose, returns home, and only then
\* is the cell written as 2; the board is untouched until the arm is home.
C9_PickPlaceHomeThenCommit ==
    /\ (pc = "robot_moving" => (cmds = <<>> /\ board = board_in))
    /\ (pc \in {"placing", "homing", "commit"} =>
            (block_num \in Slots /\ red_blocks_used[block_num]))
    /\ (pc = "placing" => (cmds = PickCmds(block_num) /\ board = board_in))
    /\ (pc = "homing" =>
            /\ cmds = PickCmds(block_num) \o PlaceCmds(move_ret)
            /\ board = board_in)
    /\ (pc = "commit" =>
            /\ cmds = PickCmds(block_num) \o PlaceCmds(move_ret) \o HomeCmds
            /\ board = board_in)
    /\ (RobotCommitted =>
            /\ cmds = PickCmds(block_num) \o PlaceCmds(move_ret) \o HomeCmds
            /\ board = [board_in EXCEPT ![move_ret[1]][move_ret[2]] = 2])

\* The robot's second move committed, from slot 2.
C9_Witness ==
    /\ pc = "loop_top"
    /\ move_ret # None
    /\ block_num = 2
    /\ board[move_ret[1]][move_ret[2]] = 2
    /\ board_in[move_ret[1]][move_ret[2]] = 0

NoRedLeft == \A i \in Slots : red_blocks_used[i]

\* C10: at a robot turn with every red slot used, pick fails and the session
\* ends: no joint command, no change of the board or of any inventory flag,
\* and no further player turn.
C10_OutOfBlocksEndsSession ==
    /\ []((pc = "play_again" /\ result = "out_of_blocks") =>
            (cmds = <<>> /\ block_num = 0 /\ board = board_in /\ NoRedLeft
             /\ blue_blocks_used = AllUnused))
    /\ [][(pc = "robot_moving" /\ NoRedLeft) =>
            /\ pc' = "play_again"
            /\ result' = "out_of_blocks"
            /\ UNCHANGED <<board, inventory_vars, servo, cmds>>]_vars

C10_Witness ==
    /\ pc = "play_again"
    /\ result = "out_of_blocks"
    /\ NoRedLeft
    /\ cmds = <<>>

-----------------------------------------------------------------------------
(* The inventory called on its own                                         *)

MaxCalls == 7              \* allocation calls explored from a fresh inventory

\* Boards whose three rows are alike: the boards reset_game is called on.
ResetBoards == {b \in AllBoards : b[1] = b[0] /\ b[2] = b[0]}

InitInventory ==
    /\ pc = "inventory_ready"
    /\ board \in ResetBoards
    /\ board_in = board
    /\ side_in = 0
    /\ win_ret = FALSE
    /\ move_ret = None
    /\ blue_blocks_used = AllUnused
    /\ red_blocks_used = AllUnused
    /\ prev_board = ZeroBoard
    /\ polls = 0
    /\ player_move = None
    /\ block_num = 0
    /\ servo = [n \in Joints |-> Unknown]
    /\ cmds = <<>>
    /\ result = "none"
    /\ misreads = 0
    /\ last_read = "none"
    /\ alloc_log = <<>>
    /\ call_in = None
    /\ moving = {}
    /\ OPENAI_API_KEY = "env_key"
    /\ environ_key = "env_key"
    /\ camera = "open"
    /\ camera_closes = 0
    /\ teardown = "none"
    /\ turns = 0
    /\ commits = 0
    /\ detections = 0

\* get_next_available_block(is_robot_block) for either side (lines 134-144).
CallGetNextAvailableBlock ==
    /\ pc = "inventory_ready"
    /\ Len(alloc_log) < MaxCalls
    /\ \E is_robot_block \in BOOLEAN :
          LET got == get_next_available_block(
                         IF is_robot_block THEN red_blocks_used
                         ELSE blue_blocks_used)
          IN  /\ red_blocks_used' = IF is_robot_block THEN got.used
                                    ELSE red_blocks_used
              /\ blue_blocks_used' = IF is_robot_block THEN blue_blocks_used
                                     ELSE got.used
              /\ block_num' = got.ret
              /\ alloc_log' = Append(alloc_log, <<is_robot_block, got.ret>>)
              /\ call_in' = <<"get_next_available_block", is_robot_block>>
    /\ UNCHANGED <<pc, board, rules_vars, motion_vars, prev_board, polls,
                   player_move, result, misreads, last_read, moving,
                   main_vars, count_vars>>

\* reset_game() called after any number of allocations (lines 450-455).
CallResetGame ==
    /\ pc = "inventory_ready"
    /\ LET after == reset_game
       IN  /\ board' = after.board
           /\ blue_blocks_used' = after.blue
           /\ red_blocks_used' = after.red
    /\ pc' = "inventory_reset"
    /\ UNCHANGED <<rules_vars, motion_vars, game_vars, last_read, probe_vars,
                   main_vars, count_vars>>

\* pick_block(is_robot_block) for either side (lines 146-179); cmds holds
\* the commands of this call.
CallPickBlock ==
    /\ pc = "inventory_ready"
    /\ Len(alloc_log) < MaxCalls
    /\ \E is_robot_block \in BOOLEAN :
          LET got == pick_block(Arm(servo, <<>>), blue_blocks_used,
                                red_blocks_used, is_robot_block)
          IN  /\ blue_blocks_used' = got.blue
              /\ red_blocks_used' = got.red
              /\ servo' = got.arm.servo
              /\ cmds' = got.arm.cmds
              /\ block_num' = got.block
              /\ result' = IF got.ok THEN "picked" ELSE "pick_failed"
              /\ alloc_log' = Append(alloc_log, <<is_robot_block, got.block>>)
              /\ call_in' = <<"pick_block", is_robot_block>>
    /\ UNCHANGED <<pc, board, rules_vars, prev_board, polls, player_move,
                   misreads, last_read, moving, main_vars, count_vars>>

NextInventory == CallGetNextAvailableBlock \/ CallPickBlock \/ CallResetGame

SpecInventory == InitInventory /\ [][NextInventory]_vars

\* The slots returned so far to one side, in call order.
ReturnsTo(is_robot_block) ==
    SelectSeq(alloc_log, LAMBDA e : e[1] = is_robot_block)

\* C11: for either side, the successive get_next_available_block calls from
\* a fresh inventory return the slots 1..NumBlocks once each in increasing
\* order and mark each one used; the calls after the NumBlocks-th return no
\* slot (0) and leave the inventory as it is.
C11_AllocatesInOrderThenNone ==
    pc = "inventory_ready" =>
        \A is_robot_block \in BOOLEAN :
            LET rs == ReturnsTo(is_robot_block)
                blocks_used == IF is_robot_block THEN red_blocks_used
                               ELSE blue_blocks_used
            IN  /\ \A i \in 1..Len(rs) :
                       rs[i][2] = IF i <= NumBlocks THEN i ELSE 0
                /\ \A n \in Slots : blocks_used[n] <=> n <= Len(rs)

\* One side has been asked NumBlocks + 1 times, the other once.
C11_Witness ==
    /\ pc = "inventory_ready"
    /\ Len(ReturnsTo(TRUE)) = NumBlocks + 1
    /\ Len(ReturnsTo(FALSE)) = 1
    /\ alloc_log[Len(alloc_log)] = <<TRUE, 0>>

\* C12: after reset_game the board is all empty and every slot of both
\* inventories is unused, whatever the board and the inventories were.
C12_ResetClearsBoardAndInventories ==
    pc = "inventory_reset" =>
        /\ \A p \in Pos : board[p[1]][p[2]] = 0
        /\ \A n \in Slots : ~blue_blocks_used[n] /\ ~red_blocks_used[n]

\* reset_game has been called on a non-empty board with slots of both
\* sides in use.
C12_Witness ==
    /\ pc = "inventory_reset"
    /\ board_in # ZeroBoard
    /\ Len(ReturnsTo(TRUE)) >= 2
    /\ Len(ReturnsTo(FALSE)) >= 2

-----------------------------------------------------------------------------
(* Properties of the session's resets and end checks                       *)

\* A step that enters run_game, from the menu or after "play again".
IsSessionStart == pc \in {"menu", "run_game"} /\ pc' = "initial_scan"

\* A step that turns some used slot back into an unused one.
RestoresSlot ==
    \E n \in Slots : \/ red_blocks_used[n] /\ ~red_blocks_used'[n]
                     \/ blue_blocks_used[n] /\ ~blue_blocks_used'[n]

\* C13 as stated: starting a new game session leaves the board and the used
\* slots as they are.
C13_Original ==
    [][IsSessionStart => UNCHANGED <<board, inventory_vars>>]_vars

\* C13: starting a game session resets: the step that enters run_game leaves
\* the board all empty and every slot unused, and a used slot becomes unused
\* only at a session start or at the "play again" prompt.
C13_SessionStartResets ==
    /\ [][IsSessionStart =>
            /\ board' = ZeroBoard
            /\ blue_blocks_used' = AllUnused
            /\ red_blocks_used' = AllUnused]_vars
    /\ [][RestoresSlot => pc \in {"menu", "run_game", "play_again"}]_vars

\* A session has started after an earlier one in which the robot moved: the
\* claw has been commanded, and the board and the red slots are clear again.
C13_Witness ==
    /\ pc = "initial_scan"
    /\ servo[SERVO_CLAW] # Unknown
    /\ board = ZeroBoard
    /\ red_blocks_used = AllUnused

\* The session is over with the given cause.
EndsWith(cause) == pc' = "play_again" /\ result' = cause

\* C14: after the player's move the session ends PlayerWin iff the player
\* has a line, else Draw iff the board is full, else the robot moves; after
\* the robot's mark is written it ends RobotWin iff the robot has a line,
\* else Draw iff the board is full, else the loop goes on. No turn starts
\* from a board that is full or on which the side that just moved has a line.
C14_EndCheckAfterEachMove ==
    /\ [][pc = "player_moved" =>
            IF UniformLine(board, 1) THEN EndsWith("PlayerWin")
            ELSE IF ~HasEmpty(board) THEN EndsWith("Draw")
            ELSE pc' = "robot_thinking" /\ result' = "none"]_vars
    /\ [][pc = "commit" =>
            IF UniformLine(board', 2) THEN EndsWith("RobotWin")
            ELSE IF ~HasEmpty(board') THEN EndsWith("Draw")
            ELSE pc' = "loop_top" /\ result' = "none"]_vars
    /\ [](pc = "robot_thinking" => ~UniformLine(board, 1) /\ HasEmpty(board))
    /\ [](pc = "loop_top" /\ move_ret # None =>
            ~UniformLine(board, 2) /\ HasEmpty(board))

\* The robot has completed a line and the session is over with RobotWin.
C14_Witness ==
    /\ pc = "play_again"
    /\ result = "RobotWin"
    /\ UniformLine(board, 2)
    /\ ~UniformLine(board, 1)

-----------------------------------------------------------------------------
(* src/sorting.py: picking up a detected cube (lines 380-391)              *)

BASE == 0
SHOULDER1 == 1
ELBOW == 8
WRIST == 9
CLAW == 10
SortSteps == 10            \* move_servo_smoothly's default `steps` (sorting.py)

PICKUP_POSITION ==
    [c \in {BASE, SHOULDER1, ELBOW, WRIST} |->
        CASE c = BASE -> 15
          [] c = SHOULDER1 -> 15
          [] c = ELBOW -> 5
          [] c = WRIST -> 125]

\* One call of move_servo_smoothly(channel, target_angle), run by the main
\* thread or by a thread of its own; `writes` counts the angle commands it
\* has issued: `steps` commands of the loop and the final exact one.
Movement(by, channel, target_angle) ==
    [by |-> by, channel |-> channel, target |-> target_angle, writes |-> 0]

IssuedFinal(m) == m.writes = SortSteps + 1
InFlight(m) == ~IssuedFinal(m)

MainMovement == {m \in moving : m.by = "main"}
MainIdle == \A m \in MainMovement : IssuedFinal(m)

\* The main thread calls move_servo_smoothly: the call it has returned from
\* is forgotten and the new one begins.
MainCalls(channel, target_angle) ==
    moving' = (moving \ MainMovement)
              \cup {Movement("main", channel, target_angle)}

sort_frame ==
    <<board, rules_vars, inventory_vars, motion_vars, game_vars, last_read,
      alloc_log, call_in, main_vars, count_vars>>

InitSort ==
    /\ pc = "cube_detected"
    /\ board = ZeroBoard
    /\ board_in = ZeroBoard
    /\ side_in = 0
    /\ win_ret = FALSE
    /\ move_ret = None
    /\ blue_blocks_used = AllUnused
    /\ red_blocks_used = AllUnused
    /\ prev_board = ZeroBoard
    /\ polls = 0
    /\ player_move = None
    /\ block_num = 0
    /\ servo = [n \in Joints |-> Unknown]
    /\ cmds = <<>>
    /\ result = "none"
    /\ misreads = 0
    /\ last_read = "none"
    /\ alloc_log = <<>>
    /\ call_in = None
    /\ moving = {}
    /\ OPENAI_API_KEY = "env_key"
    /\ environ_key = "env_key"
    /\ camera = "open"
    /\ camera_closes = 0
    /\ teardown = "none"
    /\ turns = 0
    /\ commits = 0
    /\ detections = 0

\* move_to_position(PICKUP_POSITION) begins: the base moves first (line 84).
MoveBase ==
    /\ pc = "cube_detected"
    /\ MainCalls(BASE, PICKUP_POSITION[BASE])
    /\ pc' = "moving_base"
    /\ UNCHANGED sort_frame

\* One angle command of a movement, by whichever thread runs it
\* (lines 71-78).
WriteAngle ==
    /\ \E m \in moving :
          /\ InFlight(m)
          /\ moving' = (moving \ {m}) \cup {[m EXCEPT !.writes = @ + 1]}
    /\ UNCHANGED pc
    /\ UNCHANGED sort_frame

\* threading.Thread(target=move_servo_smoothly, args=(SHOULDER1, ...)).start()
\* once the base movement has returned (lines 85, 89).
StartShoulderThread ==
    /\ pc = "moving_base"
    /\ MainIdle
    /\ moving' = (moving \ MainMovement)
                 \cup {Movement("shoulder_thread", SHOULDER1,
                                PICKUP_POSITION[SHOULDER1])}
    /\ pc' = "shoulder_started"
    /\ UNCHANGED sort_frame

\* threading.Thread(target=move_servo_smoothly, args=(ELBOW, ...)).start()
\* (line 90).
StartElbowThread ==
    /\ pc = "shoulder_started"
    /\ moving' = moving \cup {Movement("elbow_thread", ELBOW,
                                       PICKUP_POSITION[ELBOW])}
    /\ pc' = "sleeping"
    /\ UNCHANGED sort_frame

\* time.sleep(delay) is over and the wrist movement begins (lines 91,
\* 100-101); the two threads are not joined.
MoveWrist ==
    /\ pc = "sleeping"
    /\ MainCalls(WRIST, PICKUP_POSITION[WRIST])
    /\ pc' = "moving_wrist"
    /\ UNCHANGED sort_frame

\* move_to_position returns (PICKUP_POSITION has no claw angle), the sleep
\* is over and the shoulder is lowered: move_servo_smoothly(SHOULDER1, 25)
\* (lines 383-385).
LowerShoulder ==
    /\ pc = "moving_wrist"
    /\ MainIdle
    /\ MainCalls(SHOULDER1, 25)
    /\ pc' = "lowering"
    /\ UNCHANGED sort_frame

\* grab_object(): move_servo_smoothly(CLAW, 7) (lines 388, 114).
GrabObject ==
    /\ pc = "lowering"
    /\ MainIdle
    /\ MainCalls(CLAW, 7)
    /\ pc' = "grabbing"
    /\ UNCHANGED sort_frame

\* Lift cube: move_servo_smoothly(SHOULDER1, 15) (line 391).
LiftCube ==
    /\ pc = "grabbing"
    /\ MainIdle
    /\ MainCalls(SHOULDER1, 15)
    /\ pc' = "lifting"
    /\ UNCHANGED sort_frame

\* The lift has returned.
CubeLifted ==
    /\ pc = "lifting"
    /\ MainIdle
    /\ moving' = moving \ MainMovement
    /\ pc' = "cube_lifted"
    /\ UNCHANGED sort_frame

NextSort ==
    \/ MoveBase
    \/ WriteAngle
    \/ StartShoulderThread
    \/ StartElbowThread
    \/ MoveWrist
    \/ LowerShoulder
    \/ GrabObject
    \/ LiftCube
    \/ CubeLifted

SpecSort == InitSort /\ [][NextSort]_vars

\* C15 as stated: once move_to_position has gone on to the wrist (or has
\* returned), the shoulder and the elbow movement it started have both
\* issued their final command.
C15_Original ==
    pc \in {"moving_wrist", "lowering", "grabbing", "lifting", "cube_lifted"} =>
        \A m \in moving :
            m.by \in {"shoulder_thread", "elbow_thread"} => IssuedFinal(m)

\* C16 as stated: no two movements in flight command the same joint.
C16_Original ==
    \A m1, m2 \in moving :
        (m1 # m2 /\ InFlight(m1) /\ InFlight(m2)) => m1.channel # m2.channel

-----------------------------------------------------------------------------
(* The session with actuator faults                                        *)

\* The joint angles after the commands cs have been issued.
RECURSIVE ApplyCmds(_, _)
ApplyCmds(sv, cs) ==
    IF cs = <<>> THEN sv
    ELSE ApplyCmds([sv EXCEPT ![cs[1][1]] = cs[1][2]], Tail(cs))

\* A motion that would take the arm from `before` to `full` raises in
\* kit.servo after some but not all of its joint movements: the arm as the
\* exception leaves it.
FaultedArms(before, full) ==
    {Arm(ApplyCmds(before.servo, SubSeq(full.cmds, Len(before.cmds) + 1, k)),
         SubSeq(full.cmds, 1, k)) :
        k \in Len(before.cmds)..(Len(full.cmds) - 1)}

\* An exception unwinds run_game and main's menu loop: the locals are gone
\* and control is in main's handler for it, or directly in `finally`.
Unwound(cause, handler) ==
    /\ prev_board' = ZeroBoard
    /\ polls' = 0
    /\ player_move' = None
    /\ board_in' = ZeroBoard
    /\ move_ret' = None
    /\ misreads' = 0
    /\ last_read' = "none"
    /\ turns' = 0
    /\ commits' = 0
    /\ detections' = 0
    /\ result' = cause
    /\ pc' = handler
    /\ UNCHANGED <<board, side_in, win_ret, call_in, moving, main_vars>>

\* pick_block(True) raises while it moves the arm; the slot is marked
\* already (lines 149, 155-179). The exception leaves run_game and main's
\* menu loop and is caught by main's `except Exception` (lines 586, 651-652).
PickFaults ==
    /\ pc = "robot_moving"
    /\ LET got == pick_block(TheArm, blue_blocks_used, red_blocks_used, TRUE)
       IN  /\ got.ok
           /\ blue_blocks_used' = got.blue
           /\ red_blocks_used' = got.red
           /\ block_num' = got.block
           /\ alloc_log' = Append(alloc_log, <<TRUE, got.block>>)
           /\ \E arm \in FaultedArms(TheArm, got.arm) :
                 servo' = arm.servo /\ cmds' = arm.cmds
    /\ Unwound("fault", "main_except")

\* place_block raises while it moves the arm (lines 587, 651-652).
PlaceFaults ==
    /\ pc = "placing"
    /\ \E arm \in FaultedArms(TheArm, place_block(TheArm, move_ret[1], move_ret[2])) :
          servo' = arm.servo /\ cmds' = arm.cmds
    /\ Unwound("fault", "main_except")
    /\ UNCHANGED <<inventory_vars, block_num, alloc_log>>

\* move_to_home raises after the block is placed (lines 588, 651-652).
HomeFaults ==
    /\ pc = "homing"
    /\ \E arm \in FaultedArms(TheArm, move_to_home(TheArm)) :
          servo' = arm.servo /\ cmds' = arm.cmds
    /\ Unwound("fault", "main_except")
    /\ UNCHANGED <<inventory_vars, block_num, alloc_log>>

\* Ctrl-C while main is in its menu or in a game: KeyboardInterrupt leaves
\* the menu loop and is caught by main (lines 649-650).
UserInterrupt ==
    /\ pc \in {"menu", "run_game", "initial_scan", "confirm_nonempty",
               "loop_top", "waiting", "player_moved", "robot_thinking",
               "robot_moving", "placing", "homing", "commit", "play_again"}
    /\ Unwound("interrupt", "main_interrupted")
    /\ block_num' = 0
    /\ cmds' = <<>>
    /\ UNCHANGED <<inventory_vars, servo, alloc_log>>

\* Menu choice 4: `break` leaves the menu loop (lines 644-646).
MenuExit ==
    /\ pc = "menu"
    /\ Unwound("exit", "main_break")
    /\ block_num' = 0
    /\ cmds' = <<>>
    /\ UNCHANGED <<inventory_vars, servo, alloc_log>>

\* The last block of main is about to run.
InFinally == pc \in {"main_except", "main_interrupted", "main_break"}

\* A finally block that does not send the arm home.
MainFinally_SkipsHome ==
    /\ InFinally
    /\ camera' = IF camera = "open" THEN "closed" ELSE camera
    /\ camera_closes' = IF camera = "open" THEN camera_closes + 1
                        ELSE camera_closes
    /\ block_num' = 0
    /\ pc' = "exited"
    /\ UNCHANGED <<board, rules_vars, inventory_vars, motion_vars, prev_board,
                   polls, player_move, result, misreads, last_read, probe_vars,
                   OPENAI_API_KEY, environ_key, teardown, count_vars>>

\* main's `finally` (lines 653-665): inside one try, move_to_home() and then,
\* if there is a camera, camera.close(); whatever is raised there is
\* swallowed by the bare except, so a move_to_home() that raises skips the
\* close. main returns and the process ends.
MainFinally ==
    /\ InFinally
    /\ LET before == Arm(servo, <<>>)
           full == move_to_home(before)
       IN  \/ /\ servo' = full.servo
              /\ cmds' = full.cmds
              /\ teardown' = "homed"
              /\ camera' = IF camera = "open" THEN "closed" ELSE camera
              /\ camera_closes' = IF camera = "open" THEN camera_closes + 1
                                  ELSE camera_closes
           \/ /\ \E arm \in FaultedArms(before, full) :
                    servo' = arm.servo /\ cmds' = arm.cmds
              /\ teardown' = "home_raised"
              /\ UNCHANGED <<camera, camera_closes>>
    /\ block_num' = 0
    /\ pc' = "exited"
    /\ UNCHANGED <<board, rules_vars, inventory_vars, prev_board, polls,
                   player_move, result, misreads, last_read, probe_vars,
                   OPENAI_API_KEY, environ_key, count_vars>>

\* The program starts with or without a camera (lines 33-43).
InitFault ==
    /\ pc = "menu"
    /\ camera \in {"open", "none"}
    /\ board = ZeroBoard
    /\ board_in = ZeroBoard
    /\ side_in = 0
    /\ win_ret = FALSE
    /\ move_ret = None
    /\ blue_blocks_used = AllUnused
    /\ red_blocks_used = AllUnused
    /\ prev_board = ZeroBoard
    /\ polls = 0
    /\ player_move = None
    /\ block_num = 0
    /\ servo = [n \in Joints |-> Unknown]
    /\ cmds = <<>>
    /\ result = "none"
    /\ misreads = 0
    /\ last_read = "none"
    /\ alloc_log = <<>>
    /\ call_in = None
    /\ moving = {}
    /\ OPENAI_API_KEY = "env_key"
    /\ environ_key = "env_key"
    /\ camera_closes = 0
    /\ teardown = "none"
    /\ turns = 0
    /\ commits = 0
    /\ detections = 0

NextFault ==
    \/ NextGame
    \/ PickFaults
    \/ PlaceFaults
    \/ HomeFaults
    \/ UserInterrupt
    \/ MenuExit
    \/ MainFinally

SpecFault == InitFault /\ [][NextFault]_vars

\* C17 as stated: after an actuator fault during pick, place or return-home
\* the process has not ended: control is still inside main's menu loop.
C17_Original ==
    result = "fault" => pc \notin {"main_except", "exited"}

-----------------------------------------------------------------------------
(* move_arm_to_position called on its own                                  *)

NoAngle == -2              \* kit.servo[n].angle reads None (no pulse set yet)

\* The poses of the catalog.
Poses ==
    {home_position} \cup {board_positions[p] : p \in Pos}
    \cup {blue_storage[n] : n \in Slots} \cup {red_storage[n] : n \in Slots}

\* What kit.servo[n].angle can report when move_servo_smoothly reads it: the
\* read raises (Unknown), it returns None, or it returns an angle in range.
Readings == {Unknown, NoAngle, Deg(0), Deg(180)}

\* The five joints of a pose with their targets, in the order
\* move_arm_to_position commands them (lines 108-112, 115-119).
PoseTargets(position) ==
    << <<SERVO_BASE, Deg(position.base)>>,
       <<SERVO_SHOULDER, Deg(position.shoulder)>>,
       <<SERVO_ELBOW, Deg(position.elbow)>>,
       <<SERVO_WRIST_PITCH, Deg(position.wrist_pitch)>>,
       <<SERVO_WRIST_ROLL, Deg(position.wrist_roll)>> >>

\* The smooth branch, joint by joint: a joint whose angle reads None makes
\* `target_angle - current_angle` raise TypeError (line 94), which nothing
\* in move_arm_to_position catches.
RECURSIVE MoveJointsSmoothly(_, _)
MoveJointsSmoothly(arm, ts) ==
    IF ts = <<>> THEN [arm |-> arm, raised |-> FALSE]
    ELSE IF arm.servo[ts[1][1]] = NoAngle THEN [arm |-> arm, raised |-> TRUE]
    ELSE MoveJointsSmoothly(move_servo_smoothly(arm, ts[1][1], ts[1][2]),
                            Tail(ts))

\* The direct branch: the five angles are set one after the other.
RECURSIVE SetJoints(_, _)
SetJoints(arm, ts) ==
    IF ts = <<>> THEN [arm |-> arm, raised |-> FALSE]
    ELSE SetJoints(SetAngle(arm, ts[1][1], ts[1][2]), Tail(ts))

\* move_arm_to_position(position, smooth) with its outcome (lines 102-122).
MoveArmOutcome(arm, position, smooth) ==
    IF smooth THEN MoveJointsSmoothly(arm, PoseTargets(position))
    ELSE SetJoints(arm, PoseTargets(position))

InitMotion ==
    /\ pc = "arm_ready"
    /\ call_in \in [position : Poses, smooth : BOOLEAN]
    /\ servo \in [Joints -> Readings]
    /\ servo[SERVO_CLAW] = Unknown
    /\ board = ZeroBoard
    /\ board_in = ZeroBoard
    /\ side_in = 0
    /\ win_ret = FALSE
    /\ move_ret = None
    /\ blue_blocks_used = AllUnused
    /\ red_blocks_used = AllUnused
    /\ prev_board = ZeroBoard
    /\ polls = 0
    /\ player_move = None
    /\ block_num = 0
    /\ cmds = <<>>
    /\ result = "none"
    /\ misreads = 0
    /\ last_read = "none"
    /\ alloc_log = <<>>
    /\ moving = {}
    /\ OPENAI_API_KEY = "env_key"
    /\ environ_key = "env_key"
    /\ camera = "open"
    /\ camera_closes = 0
    /\ teardown = "none"
    /\ turns = 0
    /\ commits = 0
    /\ detections = 0

CallMoveArmToPosition ==
    /\ pc = "arm_ready"
    /\ LET out == MoveArmOutcome(TheArm, call_in.position, call_in.smooth)
       IN  /\ servo' = out.arm.servo
           /\ cmds' = out.arm.cmds
           /\ result' = IF out.raised THEN "raised" ELSE "returned"
    /\ pc' = "arm_called"
    /\ UNCHANGED <<board, rules_vars, inventory_vars, prev_board, polls,
                   player_move, block_num, misreads, last_read, probe_vars,
                   main_vars, count_vars>>

\* A calibration that leaves the claw out.
CalibrationTargets_NoClaw ==
    << <<SERVO_BASE, Deg(0)>>, <<SERVO_BASE, Deg(180)>>, <<SERVO_BASE, Deg(90)>>,
       <<SERVO_SHOULDER, Deg(45)>>, <<SERVO_SHOULDER, Deg(90)>>,
       <<SERVO_ELBOW, Deg(45)>>, <<SERVO_ELBOW, Deg(90)>>,
       <<SERVO_WRIST_PITCH, Deg(0)>>, <<SERVO_WRIST_PITCH, Deg(45)>>,
       <<SERVO_WRIST_ROLL, Deg(0)>>, <<SERVO_WRIST_ROLL, Deg(90)>> >>

\* The smooth movements of calibrate_servos before it goes home, in order
\* (lines 463-502); open_claw and close_claw are the claw at 0 and at 90.
CalibrationTargets ==
    << <<SERVO_BASE, Deg(0)>>, <<SERVO_BASE, Deg(180)>>, <<SERVO_BASE, Deg(90)>>,
       <<SERVO_SHOULDER, Deg(45)>>, <<SERVO_SHOULDER, Deg(90)>>,
       <<SERVO_ELBOW, Deg(45)>>, <<SERVO_ELBOW, Deg(90)>>,
       <<SERVO_WRIST_PITCH, Deg(0)>>, <<SERVO_WRIST_PITCH, Deg(45)>>,
       <<SERVO_WRIST_ROLL, Deg(0)>>, <<SERVO_WRIST_ROLL, Deg(90)>>,
       <<SERVO_CLAW, Deg(0)>>, <<SERVO_CLAW, Deg(90)>> >>

\* calibrate_servos() (lines 457-506): the sweep, then move_to_home().
CallCalibrateServos ==
    /\ pc = "arm_ready"
    /\ LET out == MoveJointsSmoothly(
                      TheArm, CalibrationTargets \o PoseTargets(home_position))
       IN  /\ servo' = out.arm.servo
           /\ cmds' = out.arm.cmds
           /\ result' = IF out.raised THEN "raised" ELSE "returned"
    /\ pc' = "calibrated"
    /\ UNCHANGED <<board, rules_vars, inventory_vars, prev_board, polls,
                   player_move, block_num, misreads, last_read, probe_vars,
                   main_vars, count_vars>>

NextMotion == CallMoveArmToPosition \/ CallCalibrateServos

SpecMotion == InitMotion /\ [][NextMotion]_vars

\* The last command issued to a joint, None when there was none.
RECURSIVE LastCommandTo(_, _)
LastCommandTo(cs, joint) ==
    IF cs = <<>> THEN None
    ELSE IF cs[Len(cs)][1] = joint THEN cs[Len(cs)][2]
    ELSE LastCommandTo(SubSeq(cs, 1, Len(cs) - 1), joint)

\* C18 as stated: for every pose, smooth or not, and every reported current
\* angle (in range or unknown), move_arm_to_position returns normally and
\* the last command to each of the five joints is that joint's target.
C18_Original ==
    pc = "arm_called" =>
        /\ result = "returned"
        /\ \A i \in 1..5 :
              LET t == PoseTargets(call_in.position)[i]
              IN  LastCommandTo(cmds, t[1]) = t[2]

-----------------------------------------------------------------------------
(* detect_player_move called on its own                                    *)

MaxPrevMarks == 2          \* marks on the snapshot grids explored
MaxChanged == 2            \* cells in which the fresh read differs from the snapshot

\* The grids that differ from a grid of S in at most n cells.
RECURSIVE GridsWithin(_, _)
GridsWithin(S, n) ==
    IF n = 0 THEN S
    ELSE GridsWithin(
             S \cup {[g EXCEPT ![p[1]][p[2]] = v] : g \in S, p \in Pos, v \in Cell},
             n - 1)

InitDetect ==
    /\ pc = "detect_ready"
    /\ prev_board \in GridsWithin({ZeroBoard}, MaxPrevMarks)
    /\ board = prev_board
    /\ board_in = ZeroBoard
    /\ side_in = 0
    /\ win_ret = FALSE
    /\ move_ret = None
    /\ blue_blocks_used = AllUnused
    /\ red_blocks_used = AllUnused
    /\ polls = 0
    /\ player_move = None
    /\ block_num = 0
    /\ servo = [n \in Joints |-> Unknown]
    /\ cmds = <<>>
    /\ result = "none"
    /\ misreads = 0
    /\ last_read = "none"
    /\ alloc_log = <<>>
    /\ call_in = None
    /\ moving = {}
    /\ OPENAI_API_KEY = "env_key"
    /\ environ_key = "env_key"
    /\ camera = "open"
    /\ camera_closes = 0
    /\ teardown = "none"
    /\ turns = 0
    /\ commits = 0
    /\ detections = 0

\* detect_player_move(prev_board) whose read succeeds: the read becomes the
\* board and is compared with the snapshot (lines 325-328, 344-351).
CallDetectPlayerMove ==
    /\ pc = "detect_ready"
    /\ \E g \in GridsWithin({prev_board}, MaxChanged) :
          /\ board' = g
          /\ player_move' = FirstNewPlayerCell(prev_board, g, 0)
    /\ last_read' = "grid"
    /\ pc' = "detect_returned"
    /\ UNCHANGED <<rules_vars, inventory_vars, motion_vars, prev_board, polls,
                   block_num, result, misreads, probe_vars,
                   main_vars, count_vars>>

\* detect_player_move(prev_board) whose read fails: None (lines 339-341).
CallDetectPlayerMoveFails ==
    /\ pc = "detect_ready"
    /\ player_move' = None
    /\ last_read' = "failed"
    /\ pc' = "detect_returned"
    /\ UNCHANGED <<board, rules_vars, inventory_vars, motion_vars, prev_board,
                   polls, block_num, result, misreads, probe_vars,
                   main_vars, count_vars>>

NextDetect == CallDetectPlayerMove \/ CallDetectPlayerMoveFails

SpecDetect == InitDetect /\ [][NextDetect]_vars

\* The cells that are empty in the snapshot and hold the player's mark in
\* the fresh read.
NewPlayerCells == {p \in Pos : prev_board[p[1]][p[2]] = 0 /\ board[p[1]][p[2]] = 1}

\* C19: a move is detected iff some cell is empty in the snapshot and holds
\* the player's mark in the fresh read; the detected move is the first such
\* cell in row-major order; cells that changed in any other way never count.
C19_DetectsFirstNewPlayerCell ==
    (pc = "detect_returned" /\ last_read = "grid") =>
        /\ player_move # None <=> NewPlayerCells # {}
        /\ player_move # None => player_move = FirstRowMajor(NewPlayerCells)

\* The fresh read shows a new robot mark ahead of the new player mark, and
\* the player mark is the detected move.
C19_Witness ==
    /\ pc = "detect_returned"
    /\ last_read = "grid"
    /\ prev_board[0][0] = 0 /\ board[0][0] = 2
    /\ player_move = <<1, 2>>

-----------------------------------------------------------------------------
(* Perception failures in the session                                      *)

\* C20: a failed read during the wait leaves the board, the inventories and
\* the arm as they are, counts as no move and leaves the session waiting, so
\* that a detected move always comes from a successful read; a failed
\* initial scan ends the session before any wait, with nothing picked or
\* placed.
C20_FailedReadsChangeNothing ==
    /\ [][(pc = "waiting" /\ polls' = polls + 1 /\ last_read' = "failed") =>
            /\ pc' = "waiting"
            /\ player_move' = None
            /\ UNCHANGED <<board, prev_board, inventory_vars, motion_vars,
                           result>>]_vars
    /\ [][(pc = "initial_scan" /\ last_read' = "failed") =>
            /\ pc' = "play_again"
            /\ result' = "scan_failed"
            /\ UNCHANGED <<board, inventory_vars, motion_vars>>]_vars
    /\ [](pc = "player_moved" => last_read = "grid")
    /\ []((pc = "play_again" /\ result = "scan_failed") =>
            /\ polls = 0
            /\ block_num = 0
            /\ red_blocks_used = AllUnused
            /\ \A i \in 1..Len(cmds) : cmds[i][1] # SERVO_CLAW)

\* Every read of a wait on a non-empty board has failed so far.
C20_Witness ==
    /\ pc = "waiting"
    /\ last_read = "failed"
    /\ polls = MaxPolls
    /\ board # ZeroBoard
    /\ red_blocks_used[1]

-----------------------------------------------------------------------------
(* Startup: the API credential                                             *)

\* The program is imported: OPENAI_API_KEY = os.getenv("OPENAI_API_KEY")
\* (line 28), with the variable set or not set in the environment.
InitConfig ==
    /\ pc = "startup"
    /\ environ_key \in {NoKey, "env_key"}
    /\ OPENAI_API_KEY = environ_key
    /\ camera = "open"
    /\ camera_closes = 0
    /\ teardown = "none"
    /\ board = ZeroBoard
    /\ board_in = ZeroBoard
    /\ side_in = 0
    /\ win_ret = FALSE
    /\ move_ret = None
    /\ blue_blocks_used = AllUnused
    /\ red_blocks_used = AllUnused
    /\ prev_board = ZeroBoard
    /\ polls = 0
    /\ player_move = None
    /\ block_num = 0
    /\ servo = [n \in Joints |-> Unknown]
    /\ cmds = <<>>
    /\ result = "none"
    /\ misreads = 0
    /\ last_read = "none"
    /\ alloc_log = <<>>
    /\ call_in = None
    /\ moving = {}
    /\ turns = 0
    /\ commits = 0
    /\ detections = 0

\* main before the menu (lines 613-616): with no key in the global the user
\* is prompted and the answer is stored in os.environ; the global itself is
\* not assigned.
MainStartup ==
    /\ pc = "startup"
    /\ IF OPENAI_API_KEY = NoKey
       THEN \E api_key \in {"typed_key", NoKey} : environ_key' = api_key
       ELSE environ_key' = environ_key
    /\ pc' = "menu"
    /\ UNCHANGED <<board, rules_vars, inventory_vars, motion_vars, game_vars,
                   last_read, probe_vars, OPENAI_API_KEY, camera,
                   camera_closes, teardown, count_vars>>

NextConfig == MainStartup \/ NextGame

SpecConfig == InitConfig /\ [][NextConfig]_vars

\* C21 as stated: once the user has supplied the credential at the prompt,
\* board analysis uses it: the key the vision call reads is the supplied one
\* and a read is not rejected for a missing credential.
C21_Original ==
    (pc # "startup" /\ environ_key = "typed_key") =>
        /\ OPENAI_API_KEY = environ_key
        /\ OPENAI_API_KEY # NoKey

-----------------------------------------------------------------------------
(* Properties of calibrate_servos                                          *)

\* The angles commanded to a joint, in order, in whole degrees.
RECURSIVE AnglesTo(_, _)
AnglesTo(cs, joint) ==
    IF cs = <<>> THEN <<>>
    ELSE IF cs[1][1] = joint THEN <<cs[1][2] \div 10>> \o AnglesTo(Tail(cs), joint)
    ELSE AnglesTo(Tail(cs), joint)

DistinctAngles(cs, joint) ==
    {AnglesTo(cs, joint)[i] : i \in 1..Len(AnglesTo(cs, joint))}

-----------------------------------------------------------------------------
(* Further properties of the rule engine                                   *)

BoardTwoDiagonals == MkBoard(<<<<2, 1, 2>>, <<1, 2, 1>>, <<0, 0, 0>>>>)

\* C23 as stated: on [[2,1,2],[1,2,1],[0,0,0]] the robot has no immediate
\* win and the player no threat, and the move returned is one of the empty
\* cells (2,0), (2,1), (2,2).
C23_Original ==
    (pc = "move_returned" /\ board_in = BoardTwoDiagonals) =>
        /\ CompletingCells(board_in, 2) = {}
        /\ CompletingCells(board_in, 1) = {}
        /\ move_ret \in {<<2, 0>>, <<2, 1>>, <<2, 2>>}

\* C23: on [[2,1,2],[1,2,1],[0,0,0]] the robot can complete either diagonal,
\* at (2,0) or at (2,2), and the player threatens nothing; get_robot_move
\* resolves the win tier and returns (2,0), the first winning cell row by row.
C23_WinsOnAntiDiagonal ==
    (pc = "move_returned" /\ board_in = BoardTwoDiagonals) =>
        /\ CompletingCells(board_in, 2) = {<<2, 0>>, <<2, 2>>}
        /\ CompletingCells(board_in, 1) = {}
        /\ move_ret = <<2, 0>>

C23_Witness ==
    /\ pc = "move_returned"
    /\ board_in = BoardTwoDiagonals
    /\ move_ret = <<2, 0>>
    /\ board = BoardTwoDiagonals

\* C24: check_draw(board) is true iff the board has no empty cell; so it is
\* true on every full board without a winner and false on every board with
\* an empty cell.
C24_DrawIffNoEmptyCell ==
    pc = "draw_checked" =>
        /\ win_ret <=> EmptyCells(board) = {}
        /\ (EmptyCells(board) = {} /\ ~UniformLine(board, 1)
            /\ ~UniformLine(board, 2)) => win_ret
        /\ HasEmpty(board) => ~win_ret

\* check_draw has returned true on a full board that nobody has won.
C24_Witness ==
    /\ pc = "draw_checked"
    /\ win_ret
    /\ EmptyCells(board) = {}
    /\ ~UniformLine(board, 1)
    /\ ~UniformLine(board, 2)

-----------------------------------------------------------------------------
(* Properties of pick_block and of the slots                               *)

\* The last call was pick_block for the given side.
JustPicked(is_robot_block) ==
    pc = "inventory_ready" /\ call_in = <<"pick_block", is_robot_block>>

InitSlots == InitGame \/ InitInventory
NextSlots == NextGame \/ NextInventory
SpecSlots == InitSlots /\ [][NextSlots]_vars

\* A step in which reset_game() runs.
ResetGameRuns ==
    \/ pc \in {"menu", "run_game"} /\ pc' = "initial_scan"
    \/ pc = "play_again" /\ pc' = "run_game"
    \/ pc = "inventory_ready" /\ pc' = "inventory_reset"

\* C26: a used slot stays used until reset_game() runs, and between two
\* resets get_next_available_block returns no slot number twice to the same
\* side.
C26_SlotsUsedOnceBetweenResets ==
    /\ [][~ResetGameRuns =>
            \A n \in Slots :
                /\ red_blocks_used[n] => red_blocks_used'[n]
                /\ blue_blocks_used[n] => blue_blocks_used'[n]]_vars
    /\ [](\A i, j \in 1..Len(alloc_log) :
            (i < j /\ alloc_log[i][1] = alloc_log[j][1] /\ alloc_log[i][2] # 0)
                => alloc_log[i][2] # alloc_log[j][2])

\* In its second turn of a game the robot has been given slot 2 after slot 1.
C26_Witness ==
    /\ pc = "placing"
    /\ alloc_log = << <<TRUE, 1>>, <<TRUE, 2>> >>
    /\ red_blocks_used[1] /\ red_blocks_used[2] /\ ~red_blocks_used[3]

-----------------------------------------------------------------------------
(* Properties of main's cleanup                                            *)

\* cs is a proper prefix of ds.
ProperPrefix(cs, ds) == Len(cs) < Len(ds) /\ cs = SubSeq(ds, 1, Len(cs))

\* C27: menu exit, Ctrl-C and an error escaping a game all lead to main's
\* finally block, where move_to_home() is attempted; main then returns
\* whether the motion completed or raised part-way.
C27_CleanupAttemptsHome ==
    /\ [][(result' # result /\ result' \in {"exit", "interrupt", "fault"})
            => InFinally']_vars
    /\ [][InFinally =>
            /\ pc' = "exited"
            /\ teardown' \in {"homed", "home_raised"}]_vars
    /\ [](pc = "exited" =>
            /\ result \in {"exit", "interrupt", "fault"}
            /\ teardown = "homed" => cmds = HomeCmds
            /\ teardown = "home_raised" => ProperPrefix(cmds, HomeCmds)
            /\ teardown # "none")

\* After Ctrl-C the homing of the cleanup raised part-way and main returned.
C27_Witness ==
    /\ pc = "exited"
    /\ result = "interrupt"
    /\ teardown = "home_raised"
    /\ Len(cmds) = 2

\* C28 as stated: a camera that was initialized is released exactly once on
\* every exit path.
C28_Original ==
    (pc = "exited" /\ camera # "none") => camera_closes = 1

-----------------------------------------------------------------------------
(* Properties of the length of a game                                      *)

UsedRed == {i \in Slots : red_blocks_used[i]}

\* C29: a game has at most six player turns.  Each turn after which the loop
\* goes round again has used one more red block, and a robot turn that finds
\* no red block left ends the game, so the loop body cannot be entered a
\* seventh time.
C29_AtMostSixPlayerTurns ==
    /\ [](turns <= NumBlocks + 1)
    /\ [](pc = "loop_top" => Cardinality(UsedRed) = turns)
    /\ [][(pc = "robot_moving" /\ NoRedLeft) => pc' = "play_again"]_vars
    /\ [][turns' = turns + 1 => (pc = "loop_top" /\ pc' = "waiting")]_vars

\* The sixth player turn was followed by a robot turn with no block left.
C29_Witness ==
    /\ turns = NumBlocks + 1
    /\ pc = "play_again"
    /\ result = "out_of_blocks"

\* The wait for the player's move has just been entered.
EntersWait == pc = "waiting" /\ polls = 0

\* C30: whenever the wait for the player's move is entered, as many red
\* blocks are used as robot moves were written to the board since the game's
\* reset, the used red blocks are the first ones of the storage, and no blue
\* block is used.
C30_UsedSlotsMatchCommits ==
    EntersWait =>
        /\ Cardinality(UsedRed) = commits
        /\ UsedRed = 1..commits
        /\ blue_blocks_used = AllUnused

\* The wait of the third turn is entered after two robot moves.
C30_Witness ==
    /\ EntersWait
    /\ commits = 2
    /\ UsedRed = {1, 2}
    /\ turns = 3

-----------------------------------------------------------------------------
(* Properties of the order of the steps of a turn                          *)

\* The robot has chosen its move and has not yet written it to the board.
MoveChosen == pc \in {"robot_moving", "placing", "homing", "commit"}

\* The game ran to an end decided inside the loop of run_game.
GamePlayedOut ==
    /\ pc = "play_again"
    /\ result \in {"PlayerWin", "Draw", "RobotWin", "out_of_blocks"}

-----------------------------------------------------------------------------
(* Properties of the gripper during a robot turn                           *)

\* The positions in the command log cs of the commands to the gripper.
ClawCmds(cs) == {i \in 1..Len(cs) : cs[i][1] = SERVO_CLAW}

\* The position of the command that closed the gripper.
ClosedAt(cs) == CHOOSE i \in ClawCmds(cs) : cs[i][2] = Deg(90)

\* C32: the gripper is closed at the end of the pick and the next command to
\* it comes only after place_block has driven the five joints to the chosen
\* cell's pose and lowered the wrist by 30 degrees; that command opens it, the
\* wrist is raised again, and the place ends with the wrist at the pitch of
\* the cell's pose and the gripper open.
C32_GripperHoldsUntilLowered ==
    /\ pc = "placing" =>
          /\ servo[SERVO_CLAW] = Deg(90)
          /\ ClosedAt(cmds) = Len(cmds) - 1
          /\ \A i \in ClawCmds(cmds) : i <= ClosedAt(cmds)
    /\ pc = "homing" =>
          LET cell == board_positions[move_ret]
              closed == ClosedAt(cmds)
              later == {i \in ClawCmds(cmds) : i > closed}
              opened == CHOOSE i \in later : TRUE
          IN  /\ Cardinality({i \in ClawCmds(cmds) : cmds[i][2] = Deg(90)}) = 1
              /\ Cardinality(later) = 1
              /\ cmds[opened] = <<SERVO_CLAW, Deg(0)>>
              /\ SubSeq(cmds, closed + 2, opened - 2) = PoseCmds(cell)
              /\ cmds[opened - 1] = <<SERVO_WRIST_PITCH, Deg(cell.wrist_pitch + 30)>>
              /\ opened + 1 = Len(cmds)
              /\ cmds[opened + 1] = <<SERVO_WRIST_PITCH, Deg(cell.wrist_pitch)>>
              /\ servo[SERVO_WRIST_PITCH] = Deg(cell.wrist_pitch)
              /\ servo[SERVO_CLAW] = Deg(0)

\* The robot's second block has been placed on the corner (0,0).
C32_Witness ==
    /\ pc = "homing"
    /\ block_num = 2
    /\ move_ret = <<0, 0>>
    /\ servo[SERVO_BASE] = Deg(30)
    /\ servo[SERVO_CLAW] = Deg(0)

====
